---- MODULE Spec2Model ----
(***************************************************************************)
(* Model of src/src/upload/process.rs: the upload stage of the asset      *)
(* pipeline.  process_upload (change detection, stage sequencing, final   *)
(* reconciliation) and upload_data (the bounded-concurrency scheduler).   *)
(*                                                                         *)
(* The source mixes two generations of names (DataType::Image / Media,    *)
(* indices.image / indices.0, item.image_link / item.media_link).  The    *)
(* model uses one upload_data for the three stages; the stage's data type *)
(* selects the link field the scheduler writes (image_link,               *)
(* animation_link, metadata_link).                                        *)
(***************************************************************************)
EXTENDS Naturals, Sequences, FiniteSets, TLC

\* ------------------------------------------------------------------ bounds
MaxTasks == 5       \* longest batch handed to the scheduler alone
MaxLimit == 4       \* largest PARALLEL_LIMIT of the scheduler alone
MaxAssets == 3      \* asset pairs of a whole run
RunLimit == 2       \* PARALLEL_LIMIT of a whole run

\* ------------------------------------------------------------------ values
NONE == "none"                         \* Option::None
Hashes == {"h1", "h2"}
CurHash == "h1"                        \* fingerprint of every current file
Exts == {"png", "jpg"}
DataTypes == {"Image", "Animation", "Metadata"}
Outcomes == {"ok", "upload_err", "join_err"}

VARIABLES
    parallel_limit, \* crate::constants::PARALLEL_LIMIT
    asset_pairs,    \* index -> AssetPair (get_asset_pairs)
    disk,           \* the cache file: index -> CacheItem
    cache,          \* cache.items.0 in memory
    indices,        \* AssetType {image, metadata, animation}
    errors,         \* process_upload's errors: <<data type, index>>
    interrupted,    \* args.interrupted
    pc,             \* position of process_upload
    result,         \* what process_upload returned
    start,          \* what load_cache returned when the run began
    prepare_log,    \* outcomes of the calls of storage.prepare, in order
    returned,       \* data types whose upload_data call has returned
    data_type,      \* upload_data: data_type
    tasks,          \* upload_data: tasks (the queue)
    handles,        \* upload_data: handles (in flight)
    batch_errors,   \* upload_data: errors
    upc,            \* position of upload_data
    uret,           \* what upload_data returned
    calls,          \* indices handed to storage.upload_data in this batch
    processed       \* indices whose Ok completion this batch has processed

vars == <<parallel_limit, asset_pairs, disk, cache, indices, errors,
          interrupted, pc, result, start, prepare_log, returned, data_type,
          tasks, handles,
          batch_errors, upc, uret, calls, processed>>

runVars == <<asset_pairs, indices, errors, pc, result, start, prepare_log,
             returned>>
schedVars == <<data_type, tasks, handles, batch_errors, upc, uret, calls,
               processed>>

\* ------------------------------------------------------------------ helpers
Min(a, b) == IF a < b THEN a ELSE b

Range(s) == {s[i] : i \in DOMAIN s}

\* Every order in which a set of indices can sit in a Vec.
Orders(S) == {s \in [1..Cardinality(S) -> S] : Range(s) = S}

RECURSIVE Ascending(_)
Ascending(S) ==
    IF S = {} THEN <<>>
    ELSE LET m == CHOOSE x \in S : \A y \in S : x <= y
         IN  <<m>> \o Ascending(S \ {m})

EmptyCache == [k \in {} |-> NONE]

\* AssetPair::into_cache_item: a fresh item with empty links; it has an
\* animation link slot exactly when the pair has an animation file.
IntoCacheItem(pair) ==
    [image_hash |-> pair.image_hash, image_link |-> "",
     metadata_hash |-> pair.metadata_hash, metadata_link |-> "",
     animation_hash |-> pair.animation_hash,
     animation_link |-> IF pair.animation_hash = NONE THEN NONE ELSE "",
     on_chain |-> FALSE]

\* The link field upload_data writes for a data type.
LinkOf(item, type) ==
    CASE type = "Image" -> item.image_link
      [] type = "Animation" -> item.animation_link
      [] OTHER -> item.metadata_link

SetLinkDropped(item, type, link) == item

SetLink(item, type, link) ==
    CASE type = "Image" -> [item EXCEPT !.image_link = link]
      [] type = "Animation" -> [item EXCEPT !.animation_link = link]
      [] OTHER -> [item EXCEPT !.metadata_link = link]

\* Extension of the file upload_data picks for a data type.
FileExt(pair, type) ==
    IF type = "Metadata" THEN "json" ELSE pair.ext

\* cache.sync_file(): the in-memory items replace the file's.
SyncFile(c) == c

\* ------------------------------------------------------------ upload_data
\* validates that all files have the same extension (line 443)
ExtensionOkAny(exts) == Cardinality(exts) >= 1

ExtensionOk(exts) == Cardinality(exts) = 1

\* tasks.drain(0..cmp::min(tasks.len(), PARALLEL_LIMIT)) (line 488)
InitialDrainOver(n) == Min(n, parallel_limit + 1)

InitialDrain(n) == Min(n, parallel_limit)

\* "if we are half way through, let spawn more transactions" (line 533)
SpawnMoreAtHalf(h) == (parallel_limit - h) >= (parallel_limit \div 2)

SpawnMoreLate(h) == (parallel_limit - h) > (parallel_limit \div 2) + 1

SpawnMore(h) == (parallel_limit - h) > (parallel_limit \div 2)

\* tasks.drain(0..cmp::min(tasks.len(), PARALLEL_LIMIT / 2)) (line 537)
SpawnDrainFull(n) == Min(n, parallel_limit)

SpawnDrain(n) == Min(n, parallel_limit \div 2)

\* The branch of lines 546-548: the early return without a checkpoint.
NotAllUploaded(errs, queue) == errs = {} /\ queue # <<>>

\* Lines 418-492: path and extension collection, the extension check, the
\* task list, and the initial dispatch.  ids is the indices slice.
UploadData(ids, type) ==
    LET exts == {FileExt(asset_pairs[ids[i]], type) :
                    i \in {j \in DOMAIN ids : ids[j] \in DOMAIN asset_pairs}}
        fatal == IF \E i \in DOMAIN ids : ids[i] \notin DOMAIN asset_pairs
                    THEN "AssetMissing"
                 ELSE IF ~ExtensionOk(exts) THEN "InvalidExtension"
                 ELSE IF \E i \in DOMAIN ids : ids[i] \notin DOMAIN cache
                    THEN "CacheMissing"
                 ELSE "none"
        k == InitialDrain(Len(ids))
    IN  /\ data_type' = type
        /\ batch_errors' = {}
        /\ processed' = {}
        /\ IF fatal # "none"
              THEN /\ upc' = "returned"
                   /\ uret' = fatal
                   /\ tasks' = <<>>
                   /\ handles' = {}
                   /\ calls' = {}
              ELSE /\ upc' = "loop"
                   /\ uret' = "none"
                   /\ tasks' = SubSeq(ids, k + 1, Len(ids))
                   /\ handles' = {ids[i] : i \in 1..k}
                   /\ calls' = {ids[i] : i \in 1..k}

\* Line 494, condition true: the loop body starts and waits in select_all.
LoopEnter ==
    /\ upc = "loop"
    /\ ~interrupted /\ handles # {}
    /\ upc' = "await"
    /\ UNCHANGED <<parallel_limit, disk, cache, interrupted, runVars,
                   data_type, tasks, handles, batch_errors, uret, calls,
                   processed>>

\* Lines 495-541: select_all yields the completion of any one handle; its
\* result is processed and, past the half-way mark, more tasks are spawned
\* after a checkpoint.
Complete ==
    /\ upc = "await"
    /\ \E id \in handles, outcome \in Outcomes :
         LET remaining == handles \ {id}
             cache1 == IF outcome = "ok"
                          THEN [cache EXCEPT ![id] = SetLink(@, data_type, "new")]
                          ELSE cache
             spawn == tasks # <<>> /\ SpawnMore(Cardinality(remaining))
             k == SpawnDrain(Len(tasks))
         IN  /\ cache' = cache1
             /\ batch_errors' = IF outcome = "ok" THEN batch_errors
                                ELSE batch_errors \cup {id}
             /\ processed' = IF outcome = "ok" THEN processed \cup {id}
                             ELSE processed
             /\ IF spawn
                   THEN /\ disk' = SyncFile(cache1)
                        /\ handles' = remaining \cup {tasks[i] : i \in 1..k}
                        /\ calls' = calls \cup {tasks[i] : i \in 1..k}
                        /\ tasks' = SubSeq(tasks, k + 1, Len(tasks))
                   ELSE /\ handles' = remaining
                        /\ UNCHANGED <<disk, calls, tasks>>
    /\ upc' = "loop"
    /\ UNCHANGED <<parallel_limit, interrupted, runVars, data_type, uret>>

\* Line 494, condition false, and lines 544-556: the loop is left and
\* upload_data returns.
UploadExit ==
    /\ upc = "loop"
    /\ interrupted \/ handles = {}
    /\ IF NotAllUploaded(batch_errors, tasks)
          THEN /\ uret' = "NotAllUploaded"
               /\ UNCHANGED disk
          ELSE /\ uret' = "Ok"
               /\ disk' = SyncFile(cache)
    /\ upc' = "returned"
    /\ UNCHANGED <<parallel_limit, cache, interrupted, runVars, data_type,
                   tasks, handles, batch_errors, calls, processed>>

\* The hosting process sets the interruption flag (Ctrl+C).  The flag is
\* read only by the loop of upload_data (line 494) and cleared at line 224,
\* so setting it between two stages is the same as setting it right after
\* the next stage's initial dispatch, and setting it at any other time has
\* no effect: the action is enabled while upload_data is in its loop.
Interrupt ==
    /\ ~interrupted
    /\ upc \in {"loop", "await"}
    /\ interrupted' = TRUE
    /\ UNCHANGED <<parallel_limit, disk, cache, runVars, schedVars>>

\* ------------------------------------------- the scheduler on its own
\* A batch of n tasks over fresh cache items, any extensions, any limit.
SchedPair(e) ==
    [image_hash |-> CurHash, metadata_hash |-> CurHash,
     animation_hash |-> CurHash, ext |-> e, valid |-> TRUE]

InitSched ==
    /\ parallel_limit \in 1..MaxLimit
    /\ \E n \in 0..MaxTasks :
         \E ext \in [0..(n - 1) -> Exts] :
            /\ asset_pairs = [i \in 0..(n - 1) |-> SchedPair(ext[i])]
            /\ cache = [i \in 0..(n - 1) |-> IntoCacheItem(SchedPair(ext[i]))]
    /\ disk = EmptyCache
    /\ indices = [image |-> {}, metadata |-> {}, animation |-> {}]
    /\ errors = {}
    /\ interrupted = FALSE
    /\ pc = "sched"
    /\ result = "none"
    /\ start = EmptyCache
    /\ prepare_log = <<>>
    /\ returned = {}
    /\ data_type = NONE
    /\ tasks = <<>>
    /\ handles = {}
    /\ batch_errors = {}
    /\ upc = "idle"
    /\ uret = "none"
    /\ calls = {}
    /\ processed = {}

SchedCall ==
    /\ pc = "sched"
    /\ upc = "idle"
    /\ \E type \in DataTypes :
         UploadData(Ascending(DOMAIN asset_pairs), type)
    /\ UNCHANGED <<parallel_limit, disk, cache, interrupted, runVars>>

NextSched ==
    \/ SchedCall
    \/ LoopEnter
    \/ Complete
    \/ UploadExit
    \/ Interrupt

SchedSpec == InitSched /\ [][NextSched]_vars

\* --------------------------------------------------------- process_upload
\* cache.items.0.insert(index.to_string(), item) (lines 82-85, 95-98, 115-118)
CacheInsertAlone(c, k, item) == (k :> item)

CacheInsert(c, k, item) == (k :> item) @@ c

\* "determining animation condition" (lines 70-76)
AnimationCondition(item, pair) ==
    IF item.animation_hash # NONE /\ item.animation_link # NONE
       THEN item.animation_hash # pair.animation_hash
            \/ item.animation_link = ""
       ELSE FALSE

\* "has the image file changed?" (line 79)
ImageChangedLinkOnly(item, pair) == item.image_link = ""

ImageChangedHashOnly(item, pair) == item.image_hash # pair.image_hash

ImageChanged(item, pair) ==
    item.image_hash # pair.image_hash \/ item.image_link = ""

\* Line 103: the metadata file changed or was never uploaded.
MetadataChanged(item, pair) ==
    item.metadata_hash # pair.metadata_hash \/ item.metadata_link = ""

\* One iteration of the loop of lines 66-127 for an index already in the
\* cache: the item it leaves and the roles it schedules.
DiffSome(item, pair) ==
    IF ImageChanged(item, pair)
       THEN [item |-> IntoCacheItem(pair), image |-> TRUE, metadata |-> TRUE,
             animation |-> item.animation_hash # NONE
                           \/ item.animation_link # NONE]
    ELSE IF AnimationCondition(item, pair)
       THEN [item |-> IntoCacheItem(pair), image |-> TRUE, metadata |-> TRUE,
             animation |-> TRUE]
    ELSE IF MetadataChanged(item, pair)
       THEN [item |-> [item EXCEPT !.metadata_hash = pair.metadata_hash,
                                   !.metadata_link = "",
                                   !.on_chain = FALSE],
             image |-> FALSE, metadata |-> TRUE, animation |-> FALSE]
    ELSE [item |-> item, image |-> FALSE, metadata |-> FALSE,
          animation |-> FALSE]

\* The same for an index the cache does not hold (lines 114-126).
DiffNone(pair) ==
    [item |-> IntoCacheItem(pair), image |-> TRUE, metadata |-> TRUE,
     animation |-> pair.animation_hash # NONE]

DiffOne(c, pairs, i) ==
    IF i \in DOMAIN c THEN DiffSome(c[i], pairs[i]) ELSE DiffNone(pairs[i])

\* The cache after the loop of lines 66-127 over the pairs left in todo.
RECURSIVE DiffCache(_, _, _)
DiffCache(c, pairs, todo) ==
    IF todo = {} THEN c
    ELSE LET i == CHOOSE x \in todo : TRUE
         IN  DiffCache(CacheInsert(c, i, DiffOne(c, pairs, i).item), pairs,
                       todo \ {i})

\* The index lists after the loop.
DiffIndices(c, pairs) ==
    [image |-> {i \in DOMAIN pairs : DiffOne(c, pairs, i).image},
     metadata |-> {i \in DOMAIN pairs : DiffOne(c, pairs, i).metadata},
     animation |-> {i \in DOMAIN pairs : DiffOne(c, pairs, i).animation}]

\* need_upload (lines 187-188)
NeedUploadAlways(ix) == TRUE

NeedUpload(ix) == ix.image # {} \/ ix.metadata # {} \/ ix.animation # {}

\* Lines 53-194: assets and cache are loaded, every pair is diffed against
\* the cache and its metadata file is checked against the configuration.
LoadAndDiff ==
    /\ pc = "load"
    /\ start' = disk
    /\ LET ix == DiffIndices(disk, asset_pairs)
       IN  IF \E i \in DOMAIN asset_pairs : ~asset_pairs[i].valid
              THEN /\ result' = "MismatchValue"
                   /\ pc' = "done"
                   /\ UNCHANGED <<cache, indices>>
           ELSE IF Cardinality(ix.image) > Cardinality(ix.metadata)
              THEN /\ result' = "MoreImages"
                   /\ pc' = "done"
                   /\ UNCHANGED <<cache, indices>>
           ELSE /\ cache' = DiffCache(disk, asset_pairs, DOMAIN asset_pairs)
                /\ indices' = ix
                /\ pc' = IF NeedUpload(ix) THEN "prepare" ELSE "reconcile"
                /\ UNCHANGED result
    /\ UNCHANGED <<parallel_limit, asset_pairs, disk, errors, interrupted,
                   prepare_log, returned, schedVars>>

\* Lines 208-224: the storage is initialised and prepared (either may fail,
\* which ends the run), then the interruption flag is cleared.
Prepare ==
    /\ pc = "prepare"
    /\ \E ok \in BOOLEAN :
         IF ok
            THEN /\ interrupted' = FALSE
                 /\ pc' = "images"
                 /\ prepare_log' = Append(prepare_log, "ok")
                 /\ UNCHANGED result
            ELSE /\ result' = "PrepareFailed"
                 /\ pc' = "done"
                 /\ prepare_log' = Append(prepare_log, "err")
                 /\ UNCHANGED interrupted
    /\ UNCHANGED <<parallel_limit, asset_pairs, disk, cache, indices, errors,
                   start, returned, schedVars>>

StageIndices(type) ==
    CASE type = "Image" -> indices.image
      [] type = "Animation" -> indices.animation
      [] OTHER -> indices.metadata

StagePc(type) ==
    CASE type = "Image" -> "images"
      [] type = "Animation" -> "animations"
      [] OTHER -> "metadata"

NextPc(type) ==
    CASE type = "Image" -> "animations"
      [] type = "Animation" -> "metadata"
      [] OTHER -> "reconcile"

\* Lines 241, 282, 324: a stage with nothing scheduled is skipped.
SkipStage ==
    /\ \E type \in DataTypes :
         /\ pc = StagePc(type)
         /\ upc = "idle"
         /\ StageIndices(type) = {}
         /\ pc' = NextPc(type)
    /\ UNCHANGED <<parallel_limit, asset_pairs, disk, cache, indices, errors,
                   interrupted, result, start, prepare_log, returned,
                   schedVars>>

\* Lines 242-251, 283-291, 325-333: upload_data is called with the stage's
\* index list, in the order the asset map's iteration produced.
StartStage ==
    /\ \E type \in DataTypes :
         /\ pc = StagePc(type)
         /\ upc = "idle"
         /\ StageIndices(type) # {}
         /\ \E ids \in Orders(StageIndices(type)) : UploadData(ids, type)
    /\ UNCHANGED <<parallel_limit, disk, cache, interrupted, runVars>>

\* "removes any index that the image upload failed" (lines 257-266, 297-306)
RetainReadyInverted(md, ids, type) ==
    IF md = {} THEN md
    ELSE md \ {i \in ids : LinkOf(cache[i], type) # ""}

RetainReady(md, ids, type) ==
    IF md = {} THEN md
    ELSE md \ {i \in ids : LinkOf(cache[i], type) = ""}

\* Lines 252-266, 292-306, 334: upload_data has returned to the stage.  A
\* fatal error ends the run (`?`); otherwise the errors are collected and
\* the metadata list loses the indices whose image or animation link is
\* still empty.  Line 301 unwraps the animation link slot.
EndStage ==
    /\ upc = "returned"
    /\ pc \in {"images", "animations", "metadata"}
    /\ upc' = "idle"
    /\ uret' = "none"
    /\ returned' = returned \cup {data_type}
    /\ IF uret # "Ok"
          THEN /\ result' = uret
               /\ pc' = "done"
               /\ UNCHANGED <<errors, indices>>
       ELSE IF /\ data_type = "Animation"
               /\ indices.metadata # {}
               /\ \E i \in indices.animation : cache[i].animation_link = NONE
          THEN /\ result' = "Panic"
               /\ pc' = "done"
               /\ errors' = errors \cup {<<data_type, i>> : i \in batch_errors}
               /\ UNCHANGED indices
       ELSE /\ errors' = errors \cup {<<data_type, i>> : i \in batch_errors}
            /\ indices' =
                 IF data_type = "Metadata" THEN indices
                 ELSE [indices EXCEPT !.metadata =
                          RetainReady(@, StageIndices(data_type), data_type)]
            /\ pc' = NextPc(data_type)
            /\ UNCHANGED result
    /\ UNCHANGED <<parallel_limit, asset_pairs, disk, cache, interrupted,
                   start, prepare_log, data_type, tasks, handles,
                   batch_errors, calls, processed>>

\* Lines 346-358: an item counts when no link of it is empty.
ItemComplete(item) ==
    ~(item.image_link = "" \/ item.metadata_link = ""
      \/ (item.animation_link # NONE /\ item.animation_link = ""))

Count(c) == Cardinality({k \in DOMAIN c : ItemComplete(c[k])})

\* Lines 343-406: the cache is written, the complete items are counted and
\* the count is compared with the number of asset pairs.
Reconcile ==
    /\ pc = "reconcile"
    /\ disk' = SyncFile(cache)
    /\ result' = IF Count(cache) # Cardinality(DOMAIN asset_pairs)
                    THEN "Incomplete" ELSE "Ok"
    /\ pc' = "done"
    /\ UNCHANGED <<parallel_limit, asset_pairs, cache, indices, errors,
                   interrupted, start, prepare_log, returned, schedVars>>

\* ------------------------------------------------------- the whole run
\* What a cache file can hold for an index: fingerprints equal to or
\* different from the current file's, links present or empty, with or
\* without animation.
HashLink == {<<"h1", "old">>, <<"h2", "old">>, <<"h1", "">>}

PriorItems ==
    {[image_hash |-> im[1], image_link |-> im[2],
      metadata_hash |-> md[1], metadata_link |-> md[2],
      animation_hash |-> an[1], animation_link |-> an[2],
      on_chain |-> (im[2] # "" /\ md[2] # "")] :
        im \in HashLink, md \in HashLink, an \in HashLink \cup {<<NONE, NONE>>}}

\* A fully uploaded, unchanged asset without animation.
CompleteItem ==
    [image_hash |-> CurHash, image_link |-> "old",
     metadata_hash |-> CurHash, metadata_link |-> "old",
     animation_hash |-> NONE, animation_link |-> NONE, on_chain |-> TRUE]

\* The index of an asset that is in the cache file but no longer in the
\* assets directory.
StaleId == MaxAssets

StaleItem(kind) ==
    IF kind = "complete" THEN CompleteItem
    ELSE [CompleteItem EXCEPT !.image_link = "", !.metadata_link = "",
                              !.on_chain = FALSE]

\* The state before process_upload runs: 1..MaxAssets asset pairs and the
\* cache file of an earlier run.  Asset 0 may have an animation file and any
\* prior cache item; the other assets have an animation file only when
\* asset 0 has one, and are new or completely uploaded.  The cache file may
\* hold a stale index; the asset sets in which every asset has an animation
\* are explored with cache files that hold none.
Init ==
    /\ parallel_limit = RunLimit
    /\ \E n \in 1..MaxAssets, anim0 \in {NONE, CurHash},
          anims \in {NONE, CurHash}, mixed \in BOOLEAN, valid \in BOOLEAN :
         /\ mixed => n >= 2
         /\ anims # NONE => (n >= 2 /\ anim0 # NONE)
         /\ asset_pairs =
              [i \in 0..(n - 1) |->
                 [image_hash |-> CurHash, metadata_hash |-> CurHash,
                  animation_hash |-> IF i = 0 THEN anim0 ELSE anims,
                  ext |-> IF mixed /\ i = 1 THEN "jpg" ELSE "png",
                  valid |-> (i # 0 \/ valid)]]
         /\ \E has0 \in BOOLEAN, item0 \in PriorItems,
               done \in SUBSET (1..(n - 1)),
               stale \in {"absent", "complete", "incomplete"} :
              /\ anims # NONE => stale = "absent"
              /\ disk = [k \in (IF has0 THEN {0} ELSE {}) \cup done
                             \cup (IF stale = "absent" THEN {} ELSE {StaleId})
                         |-> IF k = 0 THEN item0
                             ELSE IF k = StaleId THEN StaleItem(stale)
                             ELSE CompleteItem]
    /\ cache = EmptyCache
    /\ start = EmptyCache
    /\ prepare_log = <<>>
    /\ returned = {}
    /\ indices = [image |-> {}, metadata |-> {}, animation |-> {}]
    /\ errors = {}
    /\ interrupted = FALSE
    /\ pc = "load"
    /\ result = "none"
    /\ data_type = NONE
    /\ tasks = <<>>
    /\ handles = {}
    /\ batch_errors = {}
    /\ upc = "idle"
    /\ uret = "none"
    /\ calls = {}
    /\ processed = {}

Next ==
    \/ LoadAndDiff
    \/ Prepare
    \/ SkipStage
    \/ StartStage
    \/ LoopEnter
    \/ Complete
    \/ UploadExit
    \/ EndStage
    \/ Reconcile
    \/ Interrupt

Spec == Init /\ [][Next]_vars

\* ------------------------------------------------- claims on the scheduler
\* The batch passed its pre-checks and the loop has been left.
LoopEnded == upc = "returned" /\ uret \in {"Ok", "NotAllUploaded"}

BatchExts == {FileExt(asset_pairs[i], data_type) : i \in DOMAIN asset_pairs}

Completed == processed \cup batch_errors

\* C1: in every state of upload_data the number of in-flight operations is
\* at most PARALLEL_LIMIT, after the initial dispatch and after every
\* replenishment, for every queue length and completion order.
C1_BoundedConcurrency == Cardinality(handles) <= parallel_limit

\* C1 witness: a replenishment has happened and operations are in flight.
C1_Witness ==
    /\ upc = "loop"
    /\ Cardinality(calls) > parallel_limit
    /\ handles # {}
    /\ tasks # <<>>

C3_ExtensionHomogeneity ==
    (upc # "idle" /\ Cardinality(BatchExts) >= 2)
    => /\ upc = "returned"
       /\ uret = "InvalidExtension"
       /\ calls = {} /\ handles = {} /\ processed = {}
       /\ \A id \in DOMAIN cache :
             cache[id] = IntoCacheItem(asset_pairs[id])

\* C3 witness: a mixed batch was handed to upload_data.
C3_Witness ==
    /\ upc = "returned"
    /\ Cardinality(BatchExts) >= 2
    /\ Cardinality(DOMAIN asset_pairs) >= 3

\* C7 (as claimed): whenever the loop has ended, the cache file holds the
\* link of every upload whose successful completion the batch processed.
C7_CheckpointAfterLoop ==
    LoopEnded
    => \A id \in processed :
          /\ id \in DOMAIN disk
          /\ LinkOf(disk[id], data_type) = LinkOf(cache[id], data_type)

\* C8 (as claimed): when the loop ends on cancellation with undispatched
\* tasks left, upload_data returns the fatal "not all files were uploaded"
\* error, also when per-task errors were collected.
C8_FatalOnAbort ==
    (LoopEnded /\ interrupted /\ tasks # <<>>) => uret = "NotAllUploaded"

\* C10 (as claimed): with PARALLEL_LIMIT = 2 and three tasks, the third task
\* is dispatched as soon as the first in-flight operation has completed.
C10_ReplenishOnFirstCompletion ==
    (parallel_limit = 2 /\ Cardinality(DOMAIN asset_pairs) = 3
        /\ upc = "loop" /\ Cardinality(Completed) >= 1)
    => 2 \in calls

\* C10 (amended): with PARALLEL_LIMIT = 2 and three tasks, two tasks are
\* dispatched at once and the third is dispatched only once both initial
\* operations have completed, and then at once.
C10_ReplenishWhenBothDone ==
    (parallel_limit = 2 /\ Cardinality(DOMAIN asset_pairs) = 3
        /\ upc \in {"loop", "await"})
    => /\ {0, 1} \subseteq calls
       /\ 2 \in calls <=> {0, 1} \subseteq Completed

\* C10 witness: the third task is in flight.
C10_Witness ==
    /\ parallel_limit = 2 /\ Cardinality(DOMAIN asset_pairs) = 3
    /\ upc = "await" /\ handles = {2}

\* ---------------------------------------------------- claims on the run
NoIndices == [image |-> {}, metadata |-> {}, animation |-> {}]

\* What the next invocation's change detection schedules: it loads the
\* cache file as it is now and reads the same files.
Rescheduled == DiffIndices(disk, asset_pairs)

\* C4 (as claimed): when a run has ended successfully, running again with no
\* file changes schedules no image, no metadata and no animation upload.
C4_Idempotence ==
    (pc = "done" /\ result = "Ok") => Rescheduled = NoIndices

\* C4 restricted to cache files without an index that left the assets
\* directory (the case the count of lines 346-358 handles).
C4_IdempotenceNoStale ==
    (pc = "done" /\ result = "Ok" /\ DOMAIN start \subseteq DOMAIN asset_pairs)
    => Rescheduled = NoIndices

\* C5: right after change detection every asset whose image fingerprint
\* differs from the cached one is in the image and in the metadata list,
\* every image index is a metadata index, and the "more image files than
\* metadata" error never ends a run.
C5_ChangeDetectionComplete ==
    /\ result # "MoreImages"
    /\ pc = "prepare" =>
         /\ indices.image \subseteq indices.metadata
         /\ Cardinality(indices.image) <= Cardinality(indices.metadata)
    /\ (pc \in {"prepare", "reconcile"} /\ upc = "idle" /\ data_type = NONE) =>
         \A i \in DOMAIN asset_pairs \cap DOMAIN start :
            start[i].image_hash # asset_pairs[i].image_hash
            => i \in indices.image /\ i \in indices.metadata

\* C5 witness: an asset with a changed image and an unchanged, uploaded
\* metadata file has been scheduled.
C5_Witness ==
    /\ pc = "prepare"
    /\ 0 \in DOMAIN start
    /\ start[0].image_hash # asset_pairs[0].image_hash
    /\ start[0].image_link # ""
    /\ start[0].metadata_hash = asset_pairs[0].metadata_hash
    /\ start[0].metadata_link # ""
    /\ 0 \in indices.image

\* C6 (as claimed): a run in which the flag cut a batch short, leaving
\* queued tasks undispatched, still reaches reconciliation and ends with
\* UploadError::Incomplete.
C6_CancellationIsIncomplete ==
    (pc = "done" /\ interrupted /\ tasks # <<>>) => result = "Incomplete"

\* C9 (as claimed): after a successful run the key set of the cache equals
\* the set of current asset indices, and no run removes a key.
C9_KeySetEqualsAssets ==
    /\ DOMAIN start \subseteq DOMAIN disk
    /\ (pc = "done" /\ result = "Ok") => DOMAIN disk = DOMAIN asset_pairs

\* C9 (amended): no run removes a key that was in the cache before it, and
\* after a successful run the key set is the current asset indices together
\* with the keys the cache held before.
C9_KeySetGrows ==
    /\ DOMAIN start \subseteq DOMAIN disk
    /\ (pc = "done" /\ result = "Ok")
       => DOMAIN disk = DOMAIN asset_pairs \cup DOMAIN start

\* C9 witness: a successful run that added a key and kept a stale one.
C9_Witness ==
    /\ pc = "done" /\ result = "Ok"
    /\ StaleId \in DOMAIN disk
    /\ DOMAIN asset_pairs \ DOMAIN start # {}
    /\ DOMAIN start # {StaleId}

\* upload_data under a fair schedule: the loop keeps running, every
\* in-flight operation eventually completes and the function returns once
\* its loop condition is false.
FairSchedSpec ==
    /\ SchedSpec
    /\ WF_vars(LoopEnter)
    /\ WF_vars(Complete)
    /\ WF_vars(UploadExit)

InLoop == upc \in {"loop", "await"}

\* Every task of the batch is in exactly one place: queued, in flight, or
\* completed (with a link or with an error).
ExactlyOnce ==
    /\ Len(tasks) = Cardinality(Range(tasks))
    /\ Range(tasks) \cap calls = {}
    /\ handles \cap Completed = {}
    /\ processed \cap batch_errors = {}
    /\ handles \cup Completed = calls
    /\ InLoop \/ LoopEnded => Range(tasks) \cup calls = DOMAIN asset_pairs

AllCompleted ==
    /\ tasks = <<>>
    /\ handles = {}
    /\ calls = DOMAIN asset_pairs
    /\ Completed = DOMAIN asset_pairs

C15_CancellationStopsDispatching ==
    [][interrupted => handles' \subseteq handles]_vars

\* The part of C15 about later stages alone: with the flag set, a stage that
\* starts dispatches nothing.
C15_NoDispatchInLaterStage ==
    [][(interrupted /\ upc = "idle" /\ upc' # "idle") => handles' = {}]_vars

\* The run was given valid input: the metadata files passed validation, the
\* image/metadata cardinality check passed and the batches were homogeneous.
InputAccepted ==
    result \notin {"MismatchValue", "MoreImages", "InvalidExtension",
                   "AssetMissing", "CacheMissing"}

\* The links of asset i in cache c are all filled in.
Uploaded(c, i) ==
    /\ i \in DOMAIN c
    /\ c[i].image_link # ""
    /\ c[i].metadata_link # ""
    /\ asset_pairs[i].animation_hash # NONE
          => c[i].animation_link \notin {NONE, ""}

C12_NoDanglingMetadata ==
    (data_type = "Metadata" /\ upc # "idle")
    => \A i \in calls \cup Range(tasks) :
         cache[i].image_link # "" /\ cache[i].animation_link # ""

\* C13: no upload is issued before prepare has returned successfully,
\* prepare is invoked at most once, no animation task is dispatched before
\* the image stage has returned and no metadata task before the image and
\* animation stages have returned; when the change detection schedules
\* nothing, neither prepare nor any upload is invoked and the run goes
\* straight to the reconciliation.
C13_StageOrdering ==
    /\ Len(prepare_log) <= 1
    /\ (upc # "idle" \/ returned # {}) => prepare_log = <<"ok">>
    /\ (upc # "idle" /\ data_type = "Image") => returned = {}
    /\ (upc # "idle" /\ data_type = "Animation")
         => /\ "Metadata" \notin returned
            /\ indices.image # {} => "Image" \in returned
    /\ (upc # "idle" /\ data_type = "Metadata")
         => /\ indices.image # {} => "Image" \in returned
            /\ indices.animation # {} => "Animation" \in returned
    /\ (pc \notin {"load", "done"} /\ indices = NoIndices)
         => /\ pc = "reconcile"
            /\ prepare_log = <<>>
            /\ data_type = NONE /\ calls = {} /\ returned = {}
    /\ (pc = "done" /\ indices = NoIndices /\ InputAccepted)
         => /\ result \in {"Ok", "Incomplete"}
            /\ prepare_log = <<>>
            /\ data_type = NONE /\ calls = {} /\ returned = {}

C13_Witness ==
    /\ data_type = "Metadata" /\ upc = "await"
    /\ returned = {"Image", "Animation"}
    /\ prepare_log = <<"ok">>

C13_WitnessNothingScheduled ==
    /\ pc = "done" /\ result = "Ok"
    /\ indices = NoIndices /\ prepare_log = <<>>

\* The run ended at the reconciliation (it returned success or Incomplete).
Reconciled == pc = "done" /\ result \in {"Ok", "Incomplete"}

\* C16: when the image upload of an index failed in a run that ended at the
\* reconciliation, the next run over the same files and the persisted cache
\* schedules the image and the metadata of that index again, and schedules
\* nothing for the assets that are fully uploaded.
C16_RetryOnNextRun ==
    Reconciled
    => \A i \in DOMAIN asset_pairs :
         /\ <<"Image", i>> \in errors
               => i \in Rescheduled.image /\ i \in Rescheduled.metadata
         /\ Uploaded(disk, i)
               => /\ i \notin Rescheduled.image
                  /\ i \notin Rescheduled.metadata
                  /\ i \notin Rescheduled.animation

C16_Witness ==
    /\ Reconciled
    /\ \E i, j \in DOMAIN asset_pairs :
         /\ <<"Image", i>> \in errors
         /\ i \in Rescheduled.image /\ i \in Rescheduled.metadata
         /\ j \in indices.image /\ Uploaded(disk, j)
         /\ j \notin Rescheduled.image \cup Rescheduled.metadata

\* C17: a run returns success only if every current asset has a cache item
\* with a non-empty image link, a non-empty metadata link and no empty
\* animation link slot, whatever the previous cache held (stale indices
\* included).
C17_SuccessMeansAllUploaded ==
    (pc = "done" /\ result = "Ok")
    => \A i \in DOMAIN asset_pairs :
         /\ i \in DOMAIN disk
         /\ disk[i].image_link # ""
         /\ disk[i].metadata_link # ""
         /\ disk[i].animation_link # ""

\* C18: when the previous cache holds only indices of the current assets, a
\* run in which some stage collected a per-task error does not return
\* success but ends with the aggregated Incomplete error.
C18_ErrorsImplyIncomplete ==
    (/\ pc = "done"
     /\ errors # {}
     /\ DOMAIN start \subseteq DOMAIN asset_pairs)
    => result = "Incomplete"

\* The first half of C18 alone: such a run does not return success.
C18_ErrorsImplyNoSuccess ==
    (/\ pc = "done"
     /\ errors # {}
     /\ DOMAIN start \subseteq DOMAIN asset_pairs)
    => result # "Ok"

\* C19: every index in the animation schedule belongs to a pair that has an
\* animation file, and its cache item has an animation link slot.
C19_AnimationScheduleWellFormed ==
    \A i \in indices.animation :
       /\ asset_pairs[i].animation_hash # NONE
       /\ cache[i].animation_link # NONE

\* C20: for a cached item whose image is unchanged, an animation fingerprint
\* that differs from the cached animation hash (a cache item without an
\* animation for an asset that now has one included) schedules the
\* animation; and a run never returns success while the animation file of a
\* current asset has never been uploaded.
C20_AnimationChangeDetected ==
    /\ (pc \in {"prepare", "reconcile"} /\ data_type = NONE)
         => \A i \in DOMAIN start \cap DOMAIN asset_pairs :
              (/\ ~ImageChanged(start[i], asset_pairs[i])
               /\ start[i].animation_hash # asset_pairs[i].animation_hash)
              => i \in indices.animation
    /\ (pc = "done" /\ result = "Ok")
         => \A i \in DOMAIN asset_pairs :
              asset_pairs[i].animation_hash # NONE
              => (i \in DOMAIN disk /\ disk[i].animation_link \notin {NONE, ""})

====
